---- MODULE Spec2Model ----
(***************************************************************************)
(* A model of the parabola renderer: the material classifier and texture   *)
(* loader (js/mtrl.js), the shader variant builder (second module of       *)
(* js/mtrl.js), the vertex packer (Mesh) and the scene builder / render    *)
(* orchestrator (src/solid-model.js).                                      *)
(***************************************************************************)
EXTENDS Integers, Sequences, FiniteSets, TLC

VARIABLES
  mtrl,        \* the material handed to the classifier / shader builder
  tested,      \* names of the bucket predicates that returned true for mtrl
  shader,      \* the object returned by Shader(mtrl), or NoShader
  materials,   \* texture loader: material id -> Mtrl object
  inflight,    \* texture loader: material id -> image fetches not yet settled
  texCount,    \* number of GL textures created so far
  lastLoad,    \* the last loadTexture call: who, the object before, fetch issued
  failed,      \* texture loader: ids of the materials whose image fetch was rejected
  mtrlDrawn,   \* id of the material whose draw() was the last operation, or 0
  live,        \* ids of the materials of the current scene
  sol,         \* the decoded level
  scene,       \* the SolidModel object
  gl,          \* depth state of the GL context
  glLog,       \* GL / model calls issued by the last scene operation
  lastOp,      \* name of the last scene operation
  mesh,        \* the meshes of a model, in draw order
  addLog,      \* per mesh, the SOL offsets handed to addVertFromSol, in call order
  vboCount,    \* number of GL buffers created so far
  enableTextures, \* state.enableTextures
  pipeline,    \* texture, blend, cull and polygon offset state of the GL context
  drawLog      \* the pass over the meshes, if it was the last operation: inputs and draw calls

mtrlVars  == <<mtrl, tested, shader>>
loadVars  == <<materials, inflight, texCount, lastLoad, failed, mtrlDrawn, live>>
sceneVars == <<sol, scene, gl, glLog, lastOp>>
meshVars  == <<mesh, addLog, vboCount, enableTextures, pipeline, drawLog>>
vars == <<mtrl, tested, shader, materials, inflight, texCount, lastLoad,
          failed, mtrlDrawn, live,
          sol, scene, gl, glLog, lastOp, mesh, addLog, vboCount, enableTextures,
          pipeline, drawLog>>

(***************************************************************************)
(* JavaScript values and 32-bit bitwise operators.                         *)
(***************************************************************************)
Undefined == [t |-> "undefined", v |-> 0]
Num(n) == [t |-> "number", v |-> n]

\* obj.name : a property that is absent reads as undefined
GetProp(obj, name) == IF name \in DOMAIN obj THEN Num(obj[name]) ELSE Undefined

\* ToInt32 of a JS value: undefined -> NaN -> 0
ToInt32(x) == IF x.t = "number" THEN x.v ELSE 0

RECURSIVE BitAnd(_, _)
BitAnd(a, b) ==
  IF a = 0 \/ b = 0 THEN 0
  ELSE (IF a % 2 = 1 /\ b % 2 = 1 THEN 1 ELSE 0) + 2 * BitAnd(a \div 2, b \div 2)

RECURSIVE BitOr(_, _)
BitOr(a, b) ==
  IF a = 0 THEN b
  ELSE IF b = 0 THEN a
  ELSE (IF a % 2 = 1 \/ b % 2 = 1 THEN 1 ELSE 0) + 2 * BitOr(a \div 2, b \div 2)

RECURSIVE Pow2(_)
Pow2(n) == IF n = 0 THEN 1 ELSE 2 * Pow2(n - 1)

Shl(a, n) == a * Pow2(n)
Shr(a, n) == a \div Pow2(n)

\* a & b on JS values (operands go through ToInt32)
JsAnd(x, y) == BitAnd(ToInt32(x), ToInt32(y))

(***************************************************************************)
(* Mtrl: material flags and sorting rules.                                 *)
(***************************************************************************)
\* Static properties of the Mtrl constructor.
MtrlStatics ==
  [ PARTICLE    |-> Shl(1, 10),
    ALPHA_TEST  |-> Shl(1, 9),
    REFLECTIVE  |-> Shl(1, 8),
    TRANSPARENT |-> Shl(1, 7),
    SHADOWED    |-> Shl(1, 6),
    DECAL       |-> Shl(1, 5),
    ENVIRONMENT |-> Shl(1, 4),
    TWO_SIDED   |-> Shl(1, 3),
    ADDITIVE    |-> Shl(1, 2),
    CLAMP_S     |-> Shl(1, 1),
    CLAMP_T     |-> Shl(1, 0) ]

NoTex == 0

\* new Mtrl(): the constructor takes no parameters; every field is a default.
NewMtrl ==
  [ fl |-> 0, f |-> "", alpha_func |-> 0, tex |-> NoTex, _loading |-> FALSE ]

opaqueRules ==
  [ in |-> 0,
    ex |-> BitOr(BitOr(MtrlStatics.REFLECTIVE, MtrlStatics.TRANSPARENT), MtrlStatics.DECAL) ]
opaqueDecalRules ==
  [ in |-> MtrlStatics.DECAL,
    ex |-> BitOr(MtrlStatics.REFLECTIVE, MtrlStatics.TRANSPARENT) ]
transparentDecalRules ==
  [ in |-> BitOr(MtrlStatics.DECAL, MtrlStatics.TRANSPARENT),
    ex |-> MtrlStatics.REFLECTIVE ]
\* transparentRules without DECAL in its exclude mask.
transparentRules_noDecal ==
  [ in |-> MtrlStatics.TRANSPARENT, ex |-> MtrlStatics.REFLECTIVE ]
transparentRules ==
  [ in |-> MtrlStatics.TRANSPARENT,
    ex |-> BitOr(MtrlStatics.REFLECTIVE, MtrlStatics.DECAL) ]
reflectiveRules ==
  [ in |-> MtrlStatics.REFLECTIVE, ex |-> 0 ]

\* this.fl & FLAG, as a condition
HasFlag(m, flag) == BitAnd(m.fl, flag) # 0

\* Mtrl.prototype.test
test(m, rules) ==
  BitAnd(m.fl, rules.in) = rules.in /\ BitAnd(m.fl, rules.ex) = 0

isOpaque(m)           == test(m, opaqueRules)
isOpaqueDecal(m)      == test(m, opaqueDecalRules)
isTransparentDecal(m) == test(m, transparentDecalRules)
isTransparent(m)      == test(m, transparentRules)
isReflective(m)       == test(m, reflectiveRules)

\* The names of the bucket predicates that hold of m.
Buckets(m) ==
  (IF isReflective(m) THEN {"reflective"} ELSE {}) \cup
  (IF isOpaque(m) THEN {"opaque"} ELSE {}) \cup
  (IF isOpaqueDecal(m) THEN {"opaqueDecal"} ELSE {}) \cup
  (IF isTransparentDecal(m) THEN {"transparentDecal"} ELSE {}) \cup
  (IF isTransparent(m) THEN {"transparent"} ELSE {})

(***************************************************************************)
(* Shader: shader signature and shader graph assembly.                     *)
(***************************************************************************)
\* Static properties of the Shader constructor.
ShaderStatics ==
  [ LIT         |-> Shl(1, 0),
    ENVIRONMENT |-> Shl(1, 1),
    ALPHA_TEST  |-> Shl(7, 2) ]

alphaFuncFromShaderFlags(flags) == BitAnd(Shr(flags, 2), 7)
shaderFlagsFromAlphaFunc(index) == Shl(BitAnd(ToInt32(index), 7), 2)

\* Alpha function snippets by index; index 0 holds undefined.
alphaFuncSnippets ==
  [ i \in 0..7 |->
      CASE i = 0 -> "undefined"
        [] i = 1 -> "testEqual"
        [] i = 2 -> "testGequal"
        [] i = 3 -> "testGreater"
        [] i = 4 -> "testLequal"
        [] i = 5 -> "testLess"
        [] i = 6 -> "testNever"
        [] i = 7 -> "testNotEqual" ]

\* Gather shader flags from a material: reads mtrl.fl, Mtrl.LIT, Mtrl.ALPHA_TEST,
\* mtrl.alphaFunc and Mtrl.ENVIRONMENT.
shaderFlagsFromMtrl(m) ==
  LET f0 == 0
      f1 == IF JsAnd(GetProp(m, "fl"), GetProp(MtrlStatics, "LIT")) # 0
            THEN BitOr(f0, ShaderStatics.LIT) ELSE f0
      f2 == IF JsAnd(GetProp(m, "fl"), GetProp(MtrlStatics, "ALPHA_TEST")) # 0
            THEN BitOr(f1, shaderFlagsFromAlphaFunc(GetProp(m, "alphaFunc"))) ELSE f1
      f3 == IF JsAnd(GetProp(m, "fl"), GetProp(MtrlStatics, "ENVIRONMENT")) # 0
            THEN BitOr(f2, ShaderStatics.ENVIRONMENT) ELSE f2
  IN  f3

Pipe(key) == [op |-> "pipe", key |-> key]
Require(key) == [op |-> "require", key |-> key]

\* The fragment graph, as the sequence of graph calls made on it.
FragGraph(shaderFlags) ==
  LET tex  == IF BitAnd(shaderFlags, ShaderStatics.LIT) # 0
              THEN << Pipe("frag.getTexCoord"), Pipe("sampleTexture"),
                      Pipe("frag.getLightColor"), Pipe("multiply") >>
              ELSE << Pipe("frag.getTexCoord"), Pipe("sampleTexture") >>
      alphaFunc == alphaFuncSnippets[alphaFuncFromShaderFlags(shaderFlags)]
      alpha == IF BitAnd(shaderFlags, ShaderStatics.ALPHA_TEST) # 0
                  /\ alphaFunc # "undefined"
               THEN << Require(alphaFunc), Pipe("frag.alphaTest") >>
               ELSE << >>
  IN  tex \o alpha \o << Pipe("frag.setFragColor") >>

\* The texcoord subgraph of the vertex stage.
TexCoordGraph(shaderFlags) ==
  IF BitAnd(shaderFlags, ShaderStatics.ENVIRONMENT) # 0
  THEN << Pipe("vert.getNormal"), Pipe("viewNormal"),
          Pipe("genSphereMapCoords"), Pipe("vert.setTexCoord") >>
  ELSE << Pipe("vert.getTexCoord"), Pipe("vert.setTexCoord") >>

VertGraph(shaderFlags) ==
  << Pipe("vert.getPosition"), Pipe("viewVertex"),
     Pipe("projVertex"), Pipe("vert.setPosition") >> \o TexCoordGraph(shaderFlags)

NoShader == [built |-> FALSE, shaderFlags |-> 0, frag |-> << >>, vert |-> << >>]

\* Shader(mtrl)
Shader(m) ==
  LET shaderFlags == shaderFlagsFromMtrl(m)
  IN  [ built |-> TRUE, shaderFlags |-> shaderFlags,
        frag |-> FragGraph(shaderFlags), vert |-> VertGraph(shaderFlags) ]

(***************************************************************************)
(* Inputs of the material operations.                                      *)
(***************************************************************************)
\* Width of the flag words drawn as inputs (bits 0..10 are named by Mtrl).
FlagBits == 12
\* Largest alpha function index of a material.
MaxAlphaFunc == 7

\* The lit flag of a decoded material (the bit above PARTICLE).
LitFlag == Shl(1, 11)

FlagWords == 0..(Pow2(FlagBits) - 1)

NotTested == [done |-> FALSE, set |-> {}]

MtrlInit ==
  /\ mtrl \in { [NewMtrl EXCEPT !.fl = w, !.alpha_func = k] :
                  w \in FlagWords, k \in 0..MaxAlphaFunc }
  /\ tested = NotTested
  /\ shader = NoShader

\* Run the five bucket predicates on the material.
Classify ==
  /\ ~tested.done
  /\ tested' = [done |-> TRUE, set |-> Buckets(mtrl)]
  /\ UNCHANGED <<mtrl, shader>>

\* Build the shader of the material.
BuildShader ==
  /\ ~shader.built
  /\ shader' = Shader(mtrl)
  /\ UNCHANGED <<mtrl, tested>>


(***************************************************************************)
(* Mtrl: texture loading.                                                  *)
(***************************************************************************)
\* Number of materials of the texture loader.
NumMtrls == 3
\* Cap on the image fetches of one material that are in flight at once.
MaxInflight == 3

MtrlIds == 1..NumMtrls

\* Material names; the keys of mtrl-images.json are the names with an image.
MtrlNames == {"", "mtrl/known", "mtrl/unknown"}
mtrlImages == {"mtrl/known"}

\* WillFetch without the check of the pending flag.
WillFetch_noPending(m) ==
  /\ m.tex = NoTex
  /\ m.f \in mtrlImages

\* The early returns of loadTexture: true when the call goes on to fetch.
WillFetch(m) ==
  /\ ~m._loading
  /\ m.tex = NoTex
  /\ m.f \in mtrlImages

NoLoad == [called |-> FALSE, id |-> 0, before |-> NewMtrl, after |-> NewMtrl,
           fetched |-> FALSE, failedBefore |-> FALSE]

LoadInit ==
  /\ materials \in [MtrlIds -> { [NewMtrl EXCEPT !.f = n] : n \in MtrlNames }]
  /\ inflight = [i \in MtrlIds |-> 0]
  /\ texCount = 0
  /\ lastLoad = NoLoad
  /\ failed = {}
  /\ mtrlDrawn = 0
  /\ live = MtrlIds

\* Mtrl.prototype.loadTexture, up to the return of the call.
loadTexture(i) ==
  LET before == materials[i]
      after  == IF WillFetch(before) THEN [before EXCEPT !._loading = TRUE] ELSE before
  IN  /\ inflight[i] < MaxInflight
      /\ materials' = [materials EXCEPT ![i] = after]
      /\ inflight' = [inflight EXCEPT ![i] = @ + (IF WillFetch(before) THEN 1 ELSE 0)]
      /\ lastLoad' = [called |-> TRUE, id |-> i, before |-> before, after |-> after,
                      fetched |-> WillFetch(before), failedBefore |-> i \in failed]
      /\ mtrlDrawn' = 0
      /\ UNCHANGED <<texCount, failed, live>>

\* Mtrl.prototype.createTexture: a new GL texture becomes the material's tex.
createTexture(m, tex) == [m EXCEPT !.tex = tex]

\* The fetch of material i resolves: the completion callback of loadTexture.
fetchResolved(i) ==
  /\ inflight[i] > 0
  /\ inflight' = [inflight EXCEPT ![i] = @ - 1]
  /\ texCount' = texCount + 1
  /\ materials' = [materials EXCEPT
                     ![i] = [createTexture(@, texCount + 1) EXCEPT !._loading = FALSE]]
  /\ mtrlDrawn' = 0
  /\ UNCHANGED <<lastLoad, failed, live>>

\* A rejection handler that clears the pending mark.
fetchRejected_clears(i) ==
  /\ inflight[i] > 0
  /\ inflight' = [inflight EXCEPT ![i] = @ - 1]
  /\ failed' = failed \cup {i}
  /\ materials' = [materials EXCEPT ![i]._loading = FALSE]
  /\ mtrlDrawn' = 0
  /\ UNCHANGED <<texCount, lastLoad, live>>

\* The fetch of material i fails: the promise has no rejection handler.
fetchRejected(i) ==
  /\ inflight[i] > 0
  /\ inflight' = [inflight EXCEPT ![i] = @ - 1]
  /\ failed' = failed \cup {i}
  /\ mtrlDrawn' = 0
  /\ UNCHANGED <<materials, texCount, lastLoad, live>>

(***************************************************************************)
(* SolidModel: entity components and gl-matrix helpers.                    *)
(***************************************************************************)
Vec3(x, y, z) == [t |-> "vec3", v |-> <<x, y, z>>]

\* mat4.create(): the identity, column-major.
Mat4Identity == << 1, 0, 0, 0,  0, 1, 0, 0,  0, 0, 1, 0,  0, 0, 0, 1 >>

\* mat4.set(M, r,0,0,0, 0,r,0,0, 0,0,r,0, x,y,z,1)
ScaleTranslate(r, p) == << r, 0, 0, 0,  0, r, 0, 0,  0, 0, r, 0,  p[1], p[2], p[3], 1 >>

\* mat4.multiply(out, a, b), column-major.
Mat4Multiply(a, b) ==
  [ n \in 1..16 |->
      LET c == (n - 1) \div 4
          r == (n - 1) % 4
      IN  a[r + 1] * b[4 * c + 1] + a[4 + r + 1] * b[4 * c + 2]
            + a[8 + r + 1] * b[4 * c + 3] + a[12 + r + 1] * b[4 * c + 4] ]

\* new Spatial()
NewSpatial ==
  [ position |-> Vec3(0, 0, 0), orientation |-> <<0, 0, 0, 1>>, scale |-> Vec3(1, 1, 1) ]

\* Spatial.prototype.getTransform for the identity orientation and unit scale
\* of a fresh Spatial: mat4.fromRotationTranslationScale(M, e, p, s).
getTransform(sp) == ScaleTranslate(1, sp.position.v)

NoMovers == [translate |-> 0, rotate |-> 0]
NoBillboard == [mtrl |-> 0, fl |-> 0]

\* ents.createEntity(): no tags, no components.
NewEntity ==
  [ tags |-> {}, comps |-> {}, drawable |-> 0, movers |-> NoMovers, item |-> 0,
    spatial |-> NewSpatial, modelMatrix |-> Mat4Identity, billboard |-> NoBillboard ]

\* Default radius of an item, in hundredths of a world unit (const r = 0.15).
ItemRadius == 15

\* Neverball item type to string; index 0 holds null.
itemTags == << "null", "coin", "grow", "shrink" >>

\* itemTags[t] without the type 3 entry.
ItemTagOf_short(ty) == IF ty \in 0..2 THEN itemTags[ty + 1] ELSE "undefined"

\* itemTags[t]: an index outside the array reads as undefined.
ItemTagOf(ty) == IF ty \in 0..3 THEN itemTags[ty + 1] ELSE "undefined"

Falsy(x) == x \in {"null", "undefined"}

\* Mover.fromSolBody(sol, solBody): the two movers of body i; one instance
\* serves both when the body's rotation follows its translation.
MoversOfBody(solBody, i) ==
  [ translate |-> 2 * i - 1, rotate |-> IF solBody.alias THEN 2 * i - 1 ELSE 2 * i ]

BodyEntity(solBody, i) ==
  [ NewEntity EXCEPT !.tags = {"body"},
                     !.comps = {"Drawable", "ModelMatrix", "Spatial", "Movers"},
                     !.drawable = i,
                     !.movers = MoversOfBody(solBody, i) ]

ItemEntity(solItem) ==
  [ NewEntity EXCEPT !.tags = {"item", ItemTagOf(solItem.t)},
                     !.comps = {"Item", "Spatial", "ModelMatrix"},
                     !.item = solItem.n,
                     !.spatial.scale = Vec3(ItemRadius, ItemRadius, ItemRadius),
                     !.spatial.position = Vec3(solItem.p[1], solItem.p[2], solItem.p[3]),
                     !.modelMatrix = ScaleTranslate(ItemRadius, solItem.p) ]

BallEntity(solBall) ==
  [ NewEntity EXCEPT !.tags = {"ball"},
                     !.comps = {"Spatial", "ModelMatrix"},
                     !.spatial.scale = Num(solBall.r),
                     !.spatial.position = Vec3(solBall.p[1], solBall.p[2], solBall.p[3]),
                     !.modelMatrix = ScaleTranslate(solBall.r, solBall.p) ]

\* Billboard.prototype.fromSolBill keeps the material record and the flags.
BillEntity(solBill) ==
  LET sp == [NewSpatial EXCEPT !.position = Vec3(solBill.p[1], solBill.p[2], solBill.p[3])]
  IN  [ NewEntity EXCEPT !.tags = {"billboard"},
                         !.comps = {"ModelMatrix", "Spatial", "Billboard"},
                         !.spatial = sp,
                         !.modelMatrix = getTransform(sp),
                         !.billboard = [mtrl |-> solBill.mi, fl |-> solBill.fl] ]

\* The items loop of fromSol: items whose tag is falsy are skipped.
RECURSIVE ItemEntities(_)
ItemEntities(hv) ==
  IF hv = << >> THEN << >>
  ELSE IF Falsy(ItemTagOf(Head(hv).t)) THEN ItemEntities(Tail(hv))
  ELSE << ItemEntity(Head(hv)) >> \o ItemEntities(Tail(hv))

\* new SolidModel()
NewSolidModel ==
  [ built |-> FALSE, entities |-> << >>, models |-> << >>, materials |-> << >>,
    transparentDepthTest |-> TRUE, transparentDepthMask |-> FALSE ]

\* SolidModel.fromSol(sol)
fromSol(s) ==
  [ NewSolidModel EXCEPT
      !.built = TRUE,
      !.materials = [ i \in 1..Len(s.mv) |-> NewMtrl ],
      !.models = [ i \in 1..Len(s.bv) |-> i ],
      !.entities = [ i \in 1..Len(s.bv) |-> BodyEntity(s.bv[i], i) ]
                     \o ItemEntities(s.hv)
                     \o [ i \in 1..Len(s.uv) |-> BallEntity(s.uv[i]) ]
                     \o [ i \in 1..Len(s.rv) |-> BillEntity(s.rv[i]) ] ]

\* The level after fromSol: each material record remembers its Material.
solAfterFromSol(s) ==
  [ s EXCEPT !.mv = [ i \in 1..Len(s.mv) |-> [ s.mv[i] EXCEPT !.cachedMaterial = i ] ] ]

\* entities.queryComponents(comps): indices of the entities carrying them all.
QueryComponents(sc, comps) ==
  SelectSeq([ i \in 1..Len(sc.entities) |-> i ],
            LAMBDA i : comps \subseteq sc.entities[i].comps)

\* One call issued by a scene operation.
Event(call, arg) ==
  [ call |-> call, arg |-> arg, ent |-> 0, mover |-> 0, matrix |-> << >>,
    depthTest |-> TRUE, depthMask |-> TRUE ]

RECURSIVE Flatten(_)
Flatten(ss) == IF ss = << >> THEN << >> ELSE Head(ss) \o Flatten(Tail(ss))

(***************************************************************************)
(* SolidModel: step and the draw passes.                                   *)
(***************************************************************************)
StepEvent(i, m) == [ Event("mover.step", "dt") EXCEPT !.ent = i, !.mover = m ]

\* The mover update of step that steps both movers whatever they are.
StepCalls_both(sc, i) ==
  LET movers == sc.entities[i].movers
  IN  << StepEvent(i, movers.translate), StepEvent(i, movers.rotate) >>

\* The mover update of step for entity i.
StepCalls(sc, i) ==
  LET moverTranslate == sc.entities[i].movers.translate
      moverRotate    == sc.entities[i].movers.rotate
  IN  IF moverTranslate = moverRotate
      THEN << StepEvent(i, moverTranslate) >>
      ELSE << StepEvent(i, moverTranslate), StepEvent(i, moverRotate) >>

\* SolidModel.prototype.step: the calls made on the movers, entity by entity.
stepLog(sc) ==
  LET ents == QueryComponents(sc, {"Spatial", "ModelMatrix", "Movers"})
  IN  Flatten([ k \in 1..Len(ents) |-> StepCalls(sc, ents[k]) ])

\* mover.getPosition(p) / mover.getOrientation(e): where the mover stands; a
\* mover keeps to its own place and does not turn.
MoverPosition(m) == <<m, 0, 0>>
MoverOrientation(m) == <<0, 0, 0, 1>>

\* SolidModel.prototype.step: the scene after the movers were queried and the
\* model matrices rebuilt with mat4.fromRotationTranslation.
stepScene(sc) ==
  [ sc EXCEPT !.entities =
      [ i \in 1..Len(sc.entities) |->
          LET ent == sc.entities[i]
          IN  IF {"Spatial", "ModelMatrix", "Movers"} \subseteq ent.comps
              THEN LET p == MoverPosition(ent.movers.translate)
                   IN  [ ent EXCEPT !.spatial.position = Vec3(p[1], p[2], p[3]),
                                    !.spatial.orientation = MoverOrientation(ent.movers.rotate),
                                    !.modelMatrix = ScaleTranslate(1, p) ]
              ELSE ent ] ]

\* The coin model choice with strict comparisons.
CoinModel_strict(value) ==
  IF value > 10 THEN "coin10Model"
  ELSE IF value > 5 THEN "coin5Model"
  ELSE "coinModel"

\* The coin model drawn for an item value.
CoinModel(value) ==
  IF value >= 10 THEN "coin10Model"
  ELSE IF value >= 5 THEN "coin5Model"
  ELSE "coinModel"

\* The proxy model drawItems picks for an entity.
ProxyModel(ent) ==
  IF "grow" \in ent.tags THEN "growModel"
  ELSE IF "shrink" \in ent.tags THEN "shrinkModel"
  ELSE CoinModel(ent.item)

\* SolidModel.prototype.drawItems: one model.draw per item entity.
drawItemsLog(sc) ==
  LET ents == QueryComponents(sc, {"Item", "ModelMatrix"})
  IN  [ k \in 1..Len(ents) |->
          [ Event("model.draw", ProxyModel(sc.entities[ents[k]])) EXCEPT
              !.ent = ents[k], !.matrix = sc.entities[ents[k]].modelMatrix ] ]

NoMatrix == << >>

\* SolidModel.prototype.drawMeshType: per drawable entity, upload the model
\* matrix and draw the meshes of the given type.
drawMeshTypeLog(sc, g, meshType, parentMatrix) ==
  LET ents == QueryComponents(sc, {"Drawable", "ModelMatrix"})
      snap(e) == [ e EXCEPT !.depthTest = g.depthTest, !.depthMask = g.depthMask ]
  IN  << snap(Event("drawMeshType", meshType)) >> \o
      [ k \in 1..Len(ents) |->
          [ snap(Event("model.drawMeshType", meshType)) EXCEPT
              !.ent = ents[k],
              !.matrix = IF parentMatrix # NoMatrix
                         THEN Mat4Multiply(parentMatrix, sc.entities[ents[k]].modelMatrix)
                         ELSE sc.entities[ents[k]].modelMatrix ] ]

\* drawBodies without the restore of the depth state.
drawBodies_noRestore(sc, g, parentMatrix) ==
  LET mask == sc.transparentDepthMask
      tst  == sc.transparentDepthTest
      g1 == [ depthTest |-> IF ~tst THEN FALSE ELSE g.depthTest,
              depthMask |-> IF ~mask THEN FALSE ELSE g.depthMask ]
  IN  [ log |-> drawMeshTypeLog(sc, g, "reflective", parentMatrix)
                \o drawMeshTypeLog(sc, g, "opaque", parentMatrix)
                \o drawMeshTypeLog(sc, g, "opaqueDecal", parentMatrix)
                \o (IF ~tst THEN << Event("gl.disable", "DEPTH_TEST") >> ELSE << >>)
                \o (IF ~mask THEN << Event("gl.depthMask", "false") >> ELSE << >>)
                \o drawMeshTypeLog(sc, g1, "transparentDecal", parentMatrix)
                \o drawMeshTypeLog(sc, g1, "transparent", parentMatrix),
        gl |-> g1 ]

\* SolidModel.prototype.drawBodies: the calls issued and the depth state left.
drawBodies(sc, g, parentMatrix) ==
  LET mask == sc.transparentDepthMask
      tst  == sc.transparentDepthTest
      g1 == [ depthTest |-> IF ~tst THEN FALSE ELSE g.depthTest,
              depthMask |-> IF ~mask THEN FALSE ELSE g.depthMask ]
      g2 == [ depthTest |-> IF ~tst THEN TRUE ELSE g1.depthTest,
              depthMask |-> IF ~mask THEN TRUE ELSE g1.depthMask ]
  IN  [ log |-> drawMeshTypeLog(sc, g, "reflective", parentMatrix)
                \o drawMeshTypeLog(sc, g, "opaque", parentMatrix)
                \o drawMeshTypeLog(sc, g, "opaqueDecal", parentMatrix)
                \o (IF ~tst THEN << Event("gl.disable", "DEPTH_TEST") >> ELSE << >>)
                \o (IF ~mask THEN << Event("gl.depthMask", "false") >> ELSE << >>)
                \o drawMeshTypeLog(sc, g1, "transparentDecal", parentMatrix)
                \o drawMeshTypeLog(sc, g1, "transparent", parentMatrix)
                \o (IF ~mask THEN << Event("gl.depthMask", "true") >> ELSE << >>)
                \o (IF ~tst THEN << Event("gl.enable", "DEPTH_TEST") >> ELSE << >>),
        gl |-> g2 ]

(***************************************************************************)
(* Decoded levels handed to fromSol.                                       *)
(***************************************************************************)
MaxSolMtrls == 1
MaxBodies == 2
MaxItems == 2
MaxBalls == 1
MaxBills == 1

\* Item records (type, value): type 0 and type 4 map to no tag.
ItemKinds ==
  { [t |-> 0, n |-> 1], [t |-> 1, n |-> 4], [t |-> 1, n |-> 5], [t |-> 1, n |-> 10],
    [t |-> 2, n |-> 10], [t |-> 3, n |-> 5], [t |-> 4, n |-> 1] }

SeqsUpTo(S, n) == UNION { [1..k -> S] : k \in 0..n }

SolMv(k) == [ i \in 1..k |-> [fl |-> Shl(1, 4 + i), cachedMaterial |-> 0] ]
SolHv(kinds) ==
  [ i \in 1..Len(kinds) |-> [t |-> kinds[i].t, n |-> kinds[i].n, p |-> <<i, 0, 0>>] ]
SolUv(k) == [ i \in 1..k |-> [r |-> 25 * i, p |-> <<0, i, 0>>] ]
SolRv(k) == [ i \in 1..k |-> [p |-> <<0, 0, i>>, mi |-> 1, fl |-> 0] ]

NoSol == [ mv |-> << >>, bv |-> << >>, hv |-> << >>, uv |-> << >>, rv |-> << >> ]

\* Levels with every kind of record.
Sols ==
  { [ mv |-> SolMv(m), bv |-> b, hv |-> SolHv(h), uv |-> SolUv(u), rv |-> SolRv(r) ] :
      m \in {MaxSolMtrls}, b \in SeqsUpTo([alias : BOOLEAN], MaxBodies),
      h \in SeqsUpTo(ItemKinds, MaxItems), u \in 0..MaxBalls, r \in 0..MaxBills }

\* Levels made of bodies only.
BodySols ==
  { [ NoSol EXCEPT !.bv = b ] : b \in SeqsUpTo([alias : BOOLEAN], MaxBodies) }

DepthOn == [depthTest |-> TRUE, depthMask |-> TRUE]

SceneInit ==
  /\ sol \in Sols
  /\ scene = NewSolidModel
  /\ gl = DepthOn
  /\ glLog = << >>
  /\ lastOp = "none"

\* The decoded level is loaded: the scene is replaced by the one built from it.
FromSol ==
  /\ scene' = fromSol(sol)
  /\ sol' = solAfterFromSol(sol)
  /\ glLog' = << >>
  /\ lastOp' = "fromSol"
  /\ UNCHANGED gl

\* One step of the scene.
Step ==
  /\ scene.built
  /\ glLog' = stepLog(scene)
  /\ scene' = stepScene(scene)
  /\ lastOp' = "step"
  /\ UNCHANGED <<sol, gl>>

DrawItems ==
  /\ scene.built
  /\ glLog' = drawItemsLog(scene)
  /\ lastOp' = "drawItems"
  /\ UNCHANGED <<sol, scene, gl>>

\* A ball skin overrides the transparency defaults of the scene.
SetTransparency(tst, mask) ==
  /\ scene.built
  /\ scene' = [ scene EXCEPT !.transparentDepthTest = tst, !.transparentDepthMask = mask ]
  /\ glLog' = << >>
  /\ lastOp' = "setTransparency"
  /\ UNCHANGED <<sol, gl>>

ParentMatrices == { NoMatrix, ScaleTranslate(2, <<1, 2, 3>>) }

DrawBodies(parentMatrix) ==
  /\ scene.built
  /\ LET d == drawBodies(scene, gl, parentMatrix)
     IN  /\ glLog' = << [ Event("enter", "drawBodies") EXCEPT
                            !.depthTest = gl.depthTest, !.depthMask = gl.depthMask ] >>
                     \o d.log
         /\ gl' = d.gl
  /\ lastOp' = "drawBodies"
  /\ UNCHANGED <<sol, scene>>

(***************************************************************************)
(* Mesh: vertex packing, VBO creation and drawing.                         *)
(***************************************************************************)
\* Mesh.stride: floats per vertex (v + n + t).
MeshStride == 8

NoVbo == 0

\* new Mesh(count, mtrl) for count > 0: a zero-filled Float32Array.
NewMesh(count, m) ==
  [ mtrl |-> m, verts |-> [ k \in 1..(MeshStride * count) |-> 0 ], count |-> 0,
    vbo |-> NoVbo ]

\* sol.getVert(vert, offs): the packed record of SOL vertex offs, position,
\* normal and texcoord.
SolVertex(offs) == [ j \in 1..MeshStride |-> 10 * offs + j ]

\* The write position without the stride.
VertPos_noStride(count) == count

\* var pos = this.count * Mesh.stride
VertPos(count) == count * MeshStride

\* Mesh.prototype.addVertFromSol: the record is written through a subarray
\* view, which is empty past the end of the buffer.
addVertFromSol(me, offs) ==
  LET pos == VertPos(me.count)
      hi  == IF pos + MeshStride > Len(me.verts) THEN Len(me.verts) ELSE pos + MeshStride
  IN  [ me EXCEPT
          !.verts = [ k \in 1..Len(me.verts) |->
                        IF k - 1 >= pos /\ k - 1 < hi
                        THEN SolVertex(offs)[k - pos] ELSE me.verts[k] ],
          !.count = me.count + 1 ]

\* Mesh.prototype.createVBO: a new buffer becomes the mesh's vbo.
createVBO(me, vbo) == [ me EXCEPT !.vbo = vbo ]

\* State of the GL context that Mtrl.draw sets.
GLDefaults ==
  [ texture |-> [default |-> FALSE, tex |-> NoTex], environment |-> FALSE,
    additive |-> FALSE, cullFace |-> FALSE, polygonOffset |-> FALSE ]

\* Mtrl.prototype.draw: apply material state.
mtrlDraw(m, textures, p) ==
  [ p EXCEPT
      !.texture = IF textures /\ m.tex # NoTex
                  THEN [default |-> FALSE, tex |-> m.tex]
                  ELSE [default |-> TRUE, tex |-> NoTex],
      !.environment = HasFlag(m, MtrlStatics.ENVIRONMENT),
      !.additive = HasFlag(m, MtrlStatics.ADDITIVE),
      !.cullFace = ~HasFlag(m, MtrlStatics.TWO_SIDED),
      !.polygonOffset = HasFlag(m, MtrlStatics.DECAL) ]

\* gl.drawArrays(gl.TRIANGLES, 0, count) over the bound buffer, with the state
\* of the context at the call.
DrawArrays(i, me, p) == [ mesh |-> i, vbo |-> me.vbo, count |-> me.count, state |-> p ]

\* Mesh.draw that draws whether or not a vbo exists.
meshDraw_noCheck(i, me, textures, p) ==
  [ state |-> mtrlDraw(me.mtrl, textures, p),
    calls |-> << DrawArrays(i, me, mtrlDraw(me.mtrl, textures, p)) >> ]

\* Mesh.prototype.draw: set up the material, then draw if a vbo exists.
meshDraw(i, me, textures, p) ==
  LET p1 == mtrlDraw(me.mtrl, textures, p)
  IN  [ state |-> p1,
        calls |-> IF me.vbo # NoVbo THEN << DrawArrays(i, me, p1) >> ELSE << >> ]

\* The meshes are drawn one after the other: the context state after, and the
\* draw calls issued.
RECURSIVE drawMeshes(_, _, _, _)
drawMeshes(ms, from, textures, p) ==
  IF from > Len(ms) THEN [ state |-> p, calls |-> << >> ]
  ELSE LET d    == meshDraw(from, ms[from], textures, p)
           rest == drawMeshes(ms, from + 1, textures, d.state)
       IN  [ state |-> rest.state, calls |-> d.calls \o rest.calls ]

NoDraw == [ drawn |-> FALSE, meshes |-> << >>, textures |-> TRUE, before |-> GLDefaults,
            calls |-> << >> ]

\* Largest vertex capacity of a packed mesh, and largest SOL vertex offset.
MaxVerts == 3
MaxOffs == 2

\* Number of meshes drawn in a pass, and cap on the buffers created.
NumMeshes == 2
MaxVbos == 3

\* The mesh being packed: one mesh of some capacity, nothing appended yet.
PackInit ==
  /\ mesh \in { << NewMesh(n, NewMtrl) >> : n \in 1..MaxVerts }
  /\ addLog = << >>
  /\ vboCount = 0
  /\ enableTextures = TRUE
  /\ pipeline = GLDefaults
  /\ drawLog = NoDraw

\* One more SOL vertex is appended to the mesh.
AddVertFromSol(offs) ==
  /\ mesh[1].count <= Len(mesh[1].verts) \div MeshStride
  /\ mesh' = [ mesh EXCEPT ![1] = addVertFromSol(@, offs) ]
  /\ addLog' = Append(addLog, offs)
  /\ UNCHANGED <<vboCount, enableTextures, pipeline, drawLog>>

\* Materials of the drawn meshes: flag words that differ in what Mtrl.draw
\* sets, with and without a texture.
DrawMtrls ==
  { [ NewMtrl EXCEPT !.fl = w, !.tex = t ] :
      w \in { 0, BitOr(BitOr(MtrlStatics.DECAL, MtrlStatics.TWO_SIDED),
                        BitOr(MtrlStatics.ADDITIVE, MtrlStatics.ENVIRONMENT)) },
      t \in { NoTex, 1 } }

\* A packed mesh of one vertex.
PackedMesh(m) == addVertFromSol(NewMesh(1, m), 0)

DrawInit ==
  /\ mesh \in [ 1..NumMeshes -> { PackedMesh(m) : m \in DrawMtrls } ]
  /\ addLog = << >>
  /\ vboCount = 0
  /\ enableTextures = TRUE
  /\ pipeline = GLDefaults
  /\ drawLog = NoDraw

CreateVBO(i) ==
  /\ vboCount < MaxVbos
  /\ vboCount' = vboCount + 1
  /\ mesh' = [ mesh EXCEPT ![i] = createVBO(@, vboCount + 1) ]
  /\ drawLog' = NoDraw
  /\ UNCHANGED <<addLog, enableTextures, pipeline>>

\* SolidModel.prototype.createObjects, the models loop: every mesh of the
\* model gets a VBO, in order.
CreateObjects ==
  /\ vboCount + NumMeshes <= MaxVbos
  /\ vboCount' = vboCount + NumMeshes
  /\ mesh' = [ i \in 1..NumMeshes |-> createVBO(mesh[i], vboCount + i) ]
  /\ drawLog' = NoDraw
  /\ UNCHANGED <<addLog, enableTextures, pipeline>>

\* The textures checkbox changes.
SetEnableTextures(b) ==
  /\ enableTextures' = b
  /\ drawLog' = NoDraw
  /\ UNCHANGED <<mesh, addLog, vboCount, pipeline>>

\* One pass over the meshes.
DrawMeshes ==
  LET d == drawMeshes(mesh, 1, enableTextures, pipeline)
  IN  /\ pipeline' = d.state
      /\ drawLog' = [ drawn |-> TRUE, meshes |-> mesh, textures |-> enableTextures,
                      before |-> pipeline, calls |-> d.calls ]
      /\ UNCHANGED <<mesh, addLog, vboCount, enableTextures>>

(***************************************************************************)
(* Parts of the state a specification leaves untouched.                    *)
(***************************************************************************)
MtrlIdle ==
  /\ mtrl = NewMtrl
  /\ tested = NotTested
  /\ shader = NoShader

LoadIdle ==
  /\ materials = << >>
  /\ inflight = << >>
  /\ texCount = 0
  /\ lastLoad = NoLoad
  /\ failed = {}
  /\ mtrlDrawn = 0
  /\ live = {}

SceneIdle ==
  /\ sol = NoSol
  /\ scene = NewSolidModel
  /\ gl = DepthOn
  /\ glLog = << >>
  /\ lastOp = "none"

MeshIdle ==
  /\ mesh = << >>
  /\ addLog = << >>
  /\ vboCount = 0
  /\ enableTextures = TRUE
  /\ pipeline = GLDefaults
  /\ drawLog = NoDraw

(***************************************************************************)
(* SpecMtrl: the bucket predicates and the shader builder applied to every *)
(* material of the input set.                                              *)
(***************************************************************************)
InitMtrl == MtrlInit /\ LoadIdle /\ SceneIdle /\ MeshIdle

NextMtrl ==
  \/ Classify /\ UNCHANGED <<loadVars, sceneVars, meshVars>>
  \/ BuildShader /\ UNCHANGED <<loadVars, sceneVars, meshVars>>

SpecMtrl == InitMtrl /\ [][NextMtrl]_vars

\* C1: a material without the PARTICLE bit satisfies exactly one of the five
\* bucket predicates (reflective, opaque, opaque-decal, transparent-decal,
\* transparent).
C1_ExactlyOneBucket ==
  (tested.done /\ ~HasFlag(mtrl, MtrlStatics.PARTICLE))
    => Cardinality(tested.set) = 1

\* A material carrying DECAL, TRANSPARENT and other flags has been classified.
C1_Witness ==
  /\ tested.done
  /\ ~HasFlag(mtrl, MtrlStatics.PARTICLE)
  /\ HasFlag(mtrl, MtrlStatics.DECAL)
  /\ HasFlag(mtrl, MtrlStatics.TRANSPARENT)
  /\ HasFlag(mtrl, MtrlStatics.ALPHA_TEST)
  /\ tested.set = {"transparentDecal"}

\* The fragment graph injects the alpha-test snippet of function name fn right
\* before the final color write.
InjectsAlphaTest(frag, fn) ==
  /\ Len(frag) >= 3
  /\ frag[Len(frag)] = Pipe("frag.setFragColor")
  /\ frag[Len(frag) - 1] = Pipe("frag.alphaTest")
  /\ frag[Len(frag) - 2] = Require(fn)

NoAlphaTest(frag) ==
  \A i \in 1..Len(frag) : frag[i].key # "frag.alphaTest" /\ frag[i].op # "require"

\* C5: a material with ALPHA_TEST set and alpha function k (its alpha_func
\* field) gets a signature whose 3-bit selector is k and the comparison snippet
\* of k before the final color write; with k = 0 or the flag unset no alpha-test
\* snippet is injected.
C5_AlphaSelector ==
  shader.built =>
    IF HasFlag(mtrl, MtrlStatics.ALPHA_TEST) /\ mtrl.alpha_func \in 1..7
    THEN /\ alphaFuncFromShaderFlags(shader.shaderFlags) = mtrl.alpha_func
         /\ InjectsAlphaTest(shader.frag, alphaFuncSnippets[mtrl.alpha_func])
    ELSE NoAlphaTest(shader.frag)

LitFrag ==
  << Pipe("frag.getTexCoord"), Pipe("sampleTexture"),
     Pipe("frag.getLightColor"), Pipe("multiply") >>
UnlitFrag ==
  << Pipe("frag.getTexCoord"), Pipe("sampleTexture") >>

\* C6: the signature has its lit bit set iff the material carries the lit flag
\* and its environment bit set iff the material carries ENVIRONMENT; a lit
\* material multiplies the sampled texture by the light color, an unlit one
\* samples the texture alone.
C6_LitEnvSignature ==
  shader.built =>
    /\ (BitAnd(shader.shaderFlags, ShaderStatics.LIT) # 0) <=> HasFlag(mtrl, LitFlag)
    /\ (BitAnd(shader.shaderFlags, ShaderStatics.ENVIRONMENT) # 0)
          <=> HasFlag(mtrl, MtrlStatics.ENVIRONMENT)
    /\ IF HasFlag(mtrl, LitFlag)
       THEN SubSeq(shader.frag, 1, 4) = LitFrag
       ELSE /\ SubSeq(shader.frag, 1, 2) = UnlitFrag
            /\ \A i \in 1..Len(shader.frag) : shader.frag[i].key # "multiply"


(***************************************************************************)
(* SpecLoad: loadTexture calls interleaved with fetch completions.         *)
(***************************************************************************)
InitLoad == LoadInit /\ MtrlIdle /\ SceneIdle /\ MeshIdle

\* Mtrl.prototype.draw on material i, with the render state of the context.
DrawMaterial(i) ==
  /\ pipeline' = mtrlDraw(materials[i], enableTextures, pipeline)
  /\ mtrlDrawn' = i
  /\ UNCHANGED <<materials, inflight, texCount, lastLoad, failed, live>>
  /\ UNCHANGED <<mesh, addLog, vboCount, enableTextures, drawLog>>

NextLoad ==
  \/ \E i \in MtrlIds : loadTexture(i) /\ UNCHANGED <<mtrlVars, sceneVars, meshVars>>
  \/ \E i \in MtrlIds : fetchResolved(i) /\ UNCHANGED <<mtrlVars, sceneVars, meshVars>>
  \/ \E i \in MtrlIds : fetchRejected(i) /\ UNCHANGED <<mtrlVars, sceneVars, meshVars>>
  \/ \E i \in MtrlIds : DrawMaterial(i) /\ UNCHANGED <<mtrlVars, sceneVars>>

SpecLoad == InitLoad /\ [][NextLoad]_vars

\* C2: loadTexture issues a fetch only when no load is pending and no texture
\* exists, so at most one fetch per material is in flight; a call made while a
\* load is pending or a texture exists issues no fetch and leaves the material
\* as it was.
C2_SingleFetch ==
  /\ \A i \in MtrlIds : inflight[i] <= 1
  /\ lastLoad.called =>
       /\ lastLoad.fetched =>
            (~lastLoad.before._loading /\ lastLoad.before.tex = NoTex)
       /\ (lastLoad.before._loading \/ lastLoad.before.tex # NoTex) =>
            (~lastLoad.fetched /\ lastLoad.after = lastLoad.before)

\* loadTexture was called on a material whose load is pending, with the fetch
\* still in flight.
C2_Witness ==
  /\ lastLoad.called
  /\ lastLoad.before._loading
  /\ inflight[lastLoad.id] = 1
  /\ \E j \in MtrlIds : materials[j].tex # NoTex

\* C12: once the image fetch of a material has failed, the material never has
\* a texture, a later loadTexture call on it issues no fetch and leaves it as
\* it was, and drawing it with textures enabled binds the default texture.
C12_FailedStaysTextureless ==
  /\ \A i \in failed :
       /\ materials[i].tex = NoTex
       /\ inflight[i] = 0
  /\ (lastLoad.called /\ lastLoad.failedBefore) =>
       (~lastLoad.fetched /\ lastLoad.after = lastLoad.before)
  /\ mtrlDrawn \in failed =>
       pipeline.texture = [default |-> TRUE, tex |-> NoTex]

\* A material's fetch failed, loadTexture was called on it again, and it was
\* then drawn with textures enabled, while another material has its texture.
C12_Witness ==
  /\ lastLoad.called
  /\ lastLoad.failedBefore
  /\ mtrlDrawn = lastLoad.id
  /\ enableTextures
  /\ \E j \in MtrlIds : materials[j].tex # NoTex


(***************************************************************************)
(* SpecReplace: a level is replaced while image fetches of its materials   *)
(* are in flight.  Material objects are numbered in the order they are     *)
(* constructed, so the materials of a discarded scene have lower ids than  *)
(* those of the current one.                                               *)
(***************************************************************************)
Discarded == { i \in MtrlIds : \A j \in live : i < j }

NotYetBuilt == { i \in MtrlIds : \A j \in live : i > j }

\* The first level is built, its materials named; the objects of later levels
\* do not exist yet.
ReplaceInit ==
  /\ \E n \in 1..(NumMtrls - 1) :
       /\ live = 1..n
       /\ materials \in [MtrlIds -> { [NewMtrl EXCEPT !.f = nm] : nm \in MtrlNames }]
       /\ \A i \in MtrlIds \ live : materials[i] = NewMtrl
  /\ inflight = [i \in MtrlIds |-> 0]
  /\ texCount = 0
  /\ lastLoad = NoLoad
  /\ failed = {}
  /\ mtrlDrawn = 0

\* SolidModel.prototype.createObjects, the materials loop: loadTexture on a
\* material of the current scene.
LoadLive(i) ==
  /\ i \in live
  /\ loadTexture(i)

\* SolidModel.fromSol builds the scene of the next level: a new Mtrl per
\* material record; the objects of the old scene are left as they are.
ReplaceLevel ==
  /\ NotYetBuilt # {}
  /\ \E k \in 1..Cardinality(NotYetBuilt) :
       LET first == CHOOSE i \in NotYetBuilt : \A j \in NotYetBuilt : i <= j
       IN  /\ live' = first..(first + k - 1)
           /\ materials' = [ i \in MtrlIds |->
                               IF i \in first..(first + k - 1) THEN NewMtrl ELSE materials[i] ]
  /\ mtrlDrawn' = 0
  /\ UNCHANGED <<inflight, texCount, lastLoad, failed>>

InitReplace == ReplaceInit /\ MtrlIdle /\ SceneIdle /\ MeshIdle

NextReplace ==
  \/ \E i \in MtrlIds : LoadLive(i) /\ UNCHANGED <<mtrlVars, sceneVars, meshVars>>
  \/ \E i \in MtrlIds : fetchResolved(i) /\ UNCHANGED <<mtrlVars, sceneVars, meshVars>>
  \/ \E i \in MtrlIds : fetchRejected(i) /\ UNCHANGED <<mtrlVars, sceneVars, meshVars>>
  \/ ReplaceLevel /\ UNCHANGED <<mtrlVars, sceneVars, meshVars>>

SpecReplace == InitReplace /\ [][NextReplace]_vars

Init == SceneInit /\ MtrlIdle /\ LoadIdle /\ MeshIdle

Next ==
  \/ FromSol /\ UNCHANGED <<mtrlVars, loadVars, meshVars>>
  \/ Step /\ UNCHANGED <<mtrlVars, loadVars, meshVars>>
  \/ DrawItems /\ UNCHANGED <<mtrlVars, loadVars, meshVars>>

Spec == Init /\ [][Next]_vars

\* Number of mover.step calls on mover m in a log.
StepCount(log, m) ==
  Cardinality({ k \in 1..Len(log) : log[k].call = "mover.step" /\ log[k].mover = m })

\* C3: one call of step steps the mover of an entity whose translate and
\* rotate movers are the same instance exactly once, and steps each of two
\* distinct movers exactly once.
C3_StepOncePerMover ==
  lastOp = "step" =>
    \A i \in 1..Len(scene.entities) :
      "Movers" \in scene.entities[i].comps =>
        /\ StepCount(glLog, scene.entities[i].movers.translate) = 1
        /\ StepCount(glLog, scene.entities[i].movers.rotate) = 1

\* A scene with an aliased mover pair and a distinct pair has been stepped.
C3_Witness ==
  /\ lastOp = "step"
  /\ \E i \in 1..Len(scene.entities) :
       /\ "Movers" \in scene.entities[i].comps
       /\ scene.entities[i].movers.translate = scene.entities[i].movers.rotate
  /\ \E i \in 1..Len(scene.entities) :
       /\ "Movers" \in scene.entities[i].comps
       /\ scene.entities[i].movers.translate # scene.entities[i].movers.rotate

Tagged(tag) == { k \in 1..Len(scene.entities) : tag \in scene.entities[k].tags }

KindOfType(ty) == CASE ty = 1 -> "coin" [] ty = 2 -> "grow" [] ty = 3 -> "shrink"

\* C7: fromSol creates one body entity per body, one ball entity per ball, one
\* billboard entity per billboard and one item entity, tagged with its kind,
\* per item of type 1, 2 or 3; an item of another type yields no entity and
\* does not stop the records after it from getting theirs.
C7_OneEntityPerRecord ==
  scene.built =>
    /\ Cardinality(Tagged("body")) = Len(sol.bv)
    /\ Cardinality(Tagged("ball")) = Len(sol.uv)
    /\ Cardinality(Tagged("billboard")) = Len(sol.rv)
    /\ Cardinality(Tagged("item")) =
         Cardinality({ i \in 1..Len(sol.hv) : sol.hv[i].t \in 1..3 })
    /\ Len(scene.entities) =
         Cardinality(Tagged("body")) + Cardinality(Tagged("ball"))
           + Cardinality(Tagged("billboard")) + Cardinality(Tagged("item"))
    /\ \A i \in 1..Len(sol.hv) :
         LET h == sol.hv[i]
             made == { k \in Tagged("item") : scene.entities[k].spatial.position.v = h.p }
         IN  IF h.t \in 1..3
             THEN /\ Cardinality(made) = 1
                  /\ \A k \in made : /\ KindOfType(h.t) \in scene.entities[k].tags
                                     /\ scene.entities[k].item = h.n
             ELSE made = {}

\* A level whose first item has an unknown type, followed by a shrink item,
\* a ball and a billboard, has been built.
C7_Witness ==
  /\ scene.built
  /\ Len(sol.hv) = 2 /\ sol.hv[1].t = 4 /\ sol.hv[2].t = 3
  /\ Len(sol.bv) = 2 /\ Len(sol.uv) = 1 /\ Len(sol.rv) = 1
  /\ Cardinality(Tagged("shrink")) = 1

\* Indices of the item entities, in store order.
ItemEnts ==
  SelectSeq([ k \in 1..Len(scene.entities) |-> k ],
            LAMBDA k : "item" \in scene.entities[k].tags)

\* C8: drawItems draws one proxy model per item entity: the grow model for a
\* grow item, the shrink model for a shrink item, otherwise the large coin
\* model for a value of 10 or more, the medium one for 5..9 and the small one
\* below 5; the entity's model matrix is the parent transform.
C8_ItemProxy ==
  lastOp = "drawItems" =>
    /\ Len(glLog) = Len(ItemEnts)
    /\ \A k \in 1..Len(glLog) :
         LET ent == scene.entities[ItemEnts[k]]
         IN  /\ glLog[k].call = "model.draw"
             /\ glLog[k].ent = ItemEnts[k]
             /\ glLog[k].matrix = ent.modelMatrix
             /\ glLog[k].arg =
                  (IF "grow" \in ent.tags THEN "growModel"
                   ELSE IF "shrink" \in ent.tags THEN "shrinkModel"
                   ELSE IF ent.item >= 10 THEN "coin10Model"
                   ELSE IF ent.item >= 5 /\ ent.item < 10 THEN "coin5Model"
                   ELSE "coinModel")

\* A coin of value 10 and a coin of value 5 have been drawn.
C8_Witness ==
  /\ lastOp = "drawItems"
  /\ Len(glLog) = 2
  /\ glLog[1].arg = "coin10Model" /\ scene.entities[glLog[1].ent].item = 10
  /\ glLog[2].arg = "coin5Model" /\ scene.entities[glLog[2].ent].item = 5


\* C14: in a built scene, stepped or not, every entity's Spatial has a
\* 3-vector position and a 3-vector scale; for items and balls the scale is
\* (r, r, r) with r the radius of the entity's model matrix.
C14_SpatialVectors ==
  scene.built =>
    \A k \in 1..Len(scene.entities) :
      LET ent == scene.entities[k]
      IN  "Spatial" \in ent.comps =>
            /\ ent.spatial.position.t = "vec3"
            /\ Len(ent.spatial.position.v) = 3
            /\ ent.spatial.scale.t = "vec3"
            /\ Len(ent.spatial.scale.v) = 3
            /\ (ent.tags \cap {"item", "ball"} # {}) =>
                 ent.spatial.scale.v = << ent.modelMatrix[1], ent.modelMatrix[1], ent.modelMatrix[1] >>

\* C15: after fromSol the material list has one Material per material record,
\* in source order, and the Material at index i carries the flag word of
\* record i, so it falls into the bucket of that record's flags.
C15_MaterialFlags ==
  scene.built =>
    /\ Len(scene.materials) = Len(sol.mv)
    /\ \A i \in 1..Len(sol.mv) :
         /\ sol.mv[i].cachedMaterial = i
         /\ scene.materials[i].fl = sol.mv[i].fl
         /\ Buckets(scene.materials[i]) = Buckets([NewMtrl EXCEPT !.fl = sol.mv[i].fl])

(***************************************************************************)
(* SpecDraw: the bodies of a level are drawn under every transparency      *)
(* override and entry depth state.                                         *)
(***************************************************************************)
InitDraw ==
  /\ sol \in BodySols
  /\ scene = NewSolidModel
  /\ gl \in [depthTest : BOOLEAN, depthMask : BOOLEAN]
  /\ glLog = << >>
  /\ lastOp = "none"
  /\ MtrlIdle /\ LoadIdle /\ MeshIdle

NextDraw ==
  \/ FromSol /\ UNCHANGED <<mtrlVars, loadVars, meshVars>>
  \/ \E tst \in BOOLEAN, mask \in BOOLEAN :
       SetTransparency(tst, mask) /\ UNCHANGED <<mtrlVars, loadVars, meshVars>>
  \/ \E pm \in ParentMatrices : DrawBodies(pm) /\ UNCHANGED <<mtrlVars, loadVars, meshVars>>

SpecDraw == InitDraw /\ [][NextDraw]_vars


BucketOrder == << "reflective", "opaque", "opaqueDecal", "transparentDecal", "transparent" >>
BucketIndex(b) == CHOOSE n \in 1..5 : BucketOrder[n] = b

\* The calls of a drawBodies log other than the per-entity draws, as pairs.
PhaseCalls(log) ==
  LET ph == SelectSeq(log, LAMBDA e : e.call \notin {"enter", "model.drawMeshType"})
  IN  [ k \in 1..Len(ph) |-> << ph[k].call, ph[k].arg >> ]

IsDraw(e) == e.call \in {"drawMeshType", "model.drawMeshType"}

\* C4: drawBodies draws reflective, opaque, opaque-decal, then relaxes the
\* depth test and the depth mask (each only when its override flag is false),
\* draws transparent-decal and transparent, then restores them; the first
\* three buckets are drawn with the depth state of entry, and a call entered
\* with depth test and depth writes on returns with both on.
C4_DrawOrder ==
  lastOp = "drawBodies" =>
    LET tst   == scene.transparentDepthTest
        mask  == scene.transparentDepthMask
        entry == glLog[1]
    IN  /\ entry.call = "enter"
        /\ PhaseCalls(glLog) =
             << <<"drawMeshType", "reflective">>, <<"drawMeshType", "opaque">>,
                <<"drawMeshType", "opaqueDecal">> >>
             \o (IF ~tst THEN << <<"gl.disable", "DEPTH_TEST">> >> ELSE << >>)
             \o (IF ~mask THEN << <<"gl.depthMask", "false">> >> ELSE << >>)
             \o << <<"drawMeshType", "transparentDecal">>, <<"drawMeshType", "transparent">> >>
             \o (IF ~mask THEN << <<"gl.depthMask", "true">> >> ELSE << >>)
             \o (IF ~tst THEN << <<"gl.enable", "DEPTH_TEST">> >> ELSE << >>)
        /\ \A j, k \in 1..Len(glLog) :
             (j < k /\ IsDraw(glLog[j]) /\ IsDraw(glLog[k]))
               => BucketIndex(glLog[j].arg) <= BucketIndex(glLog[k].arg)
        /\ \A k \in 1..Len(glLog) :
             IsDraw(glLog[k]) =>
               IF BucketIndex(glLog[k].arg) <= 3
               THEN /\ glLog[k].depthTest = entry.depthTest
                    /\ glLog[k].depthMask = entry.depthMask
               ELSE /\ glLog[k].depthTest = (entry.depthTest /\ tst)
                    /\ glLog[k].depthMask = (entry.depthMask /\ mask)
        /\ \A b \in 1..5 :
             Cardinality({ k \in 1..Len(glLog) :
                             /\ glLog[k].call = "model.drawMeshType"
                             /\ glLog[k].arg = BucketOrder[b] })
               = Cardinality(Tagged("body"))
        /\ (entry.depthTest /\ entry.depthMask) => (gl.depthTest /\ gl.depthMask)

\* Two bodies have been drawn with both overrides false, entered with the
\* depth test and depth writes on.
C4_Witness ==
  /\ lastOp = "drawBodies"
  /\ glLog[1].depthTest /\ glLog[1].depthMask
  /\ ~scene.transparentDepthTest /\ ~scene.transparentDepthMask
  /\ Cardinality(Tagged("body")) = 2


(***************************************************************************)
(* SpecPack: SOL vertices are appended to a mesh.                          *)
(***************************************************************************)
InitPack == PackInit /\ MtrlIdle /\ LoadIdle /\ SceneIdle

NextPack ==
  \E offs \in 0..MaxOffs :
    AddVertFromSol(offs) /\ UNCHANGED <<mtrlVars, loadVars, sceneVars>>

SpecPack == InitPack /\ [][NextPack]_vars

Capacity(me) == Len(me.verts) \div MeshStride

\* The floats [8i, 8i+8) of the buffer.
RecordAt(me, i) == SubSeq(me.verts, MeshStride * i + 1, MeshStride * i + MeshStride)

\* C9: each addVertFromSol call raises count by one; the record of the i-th
\* call lies at floats [8i, 8i+8) and later appends leave it alone, so after N
\* calls on a mesh of capacity N the buffer of N x 8 floats reads back as the N
\* source records in call order.
C9_PackRoundTrip ==
  LET me == mesh[1]
      n  == IF me.count < Capacity(me) THEN me.count ELSE Capacity(me)
  IN  /\ me.count = Len(addLog)
      /\ Len(me.verts) = Capacity(me) * MeshStride
      /\ \A i \in 0..(n - 1) : RecordAt(me, i) = SolVertex(addLog[i + 1])

\* A mesh of capacity 3 is full, packed from three different SOL vertices.
C9_Witness ==
  /\ Capacity(mesh[1]) = 3
  /\ mesh[1].count = 3
  /\ addLog = << 2, 0, 1 >>

(***************************************************************************)
(* SpecMeshDraw: meshes get their VBOs and are drawn, pass after pass.     *)
(***************************************************************************)
InitMeshDraw == DrawInit /\ MtrlIdle /\ LoadIdle /\ SceneIdle

NextMeshDraw ==
  \/ \E i \in 1..NumMeshes : CreateVBO(i) /\ UNCHANGED <<mtrlVars, loadVars, sceneVars>>
  \/ CreateObjects /\ UNCHANGED <<mtrlVars, loadVars, sceneVars>>
  \/ \E b \in BOOLEAN : SetEnableTextures(b) /\ UNCHANGED <<mtrlVars, loadVars, sceneVars>>
  \/ DrawMeshes /\ UNCHANGED <<mtrlVars, loadVars, sceneVars>>

SpecMeshDraw == InitMeshDraw /\ [][NextMeshDraw]_vars

\* A sequence without its i-th element.
RemoveAt(ms, i) == [ k \in 1..(Len(ms) - 1) |-> IF k < i THEN ms[k] ELSE ms[k + 1] ]

\* Draw calls without the index of the mesh they were issued for.
Anonymous(calls) == [ k \in 1..Len(calls) |-> [ calls[k] EXCEPT !.mesh = 0 ] ]

\* The draw calls of a pass over the meshes ms.
PassCalls(ms) == drawMeshes(ms, 1, drawLog.textures, drawLog.before).calls

\* No draw call was issued for mesh i, and the others got the draw calls of a
\* pass without mesh i.
Skipped(i) ==
  /\ \A k \in 1..Len(drawLog.calls) : drawLog.calls[k].mesh # i
  /\ Anonymous(drawLog.calls) = Anonymous(PassCalls(RemoveAt(drawLog.meshes, i)))

C13_VboSetOnce ==
  [][ \A i \in 1..NumMeshes :
        mesh[i].vbo # NoVbo =>
          /\ mesh'[i].vbo = mesh[i].vbo
          /\ vboCount' - vboCount
               <= Cardinality({ j \in 1..NumMeshes : mesh[j].vbo = NoVbo }) ]_vars


====
